---------------------------- MODULE Spec2Model ----------------------------
(***************************************************************************)
(* Agent-based epidemic simulation (SIR, SEIRS, SEIRD): the per-agent,     *)
(* per-day state machine of simulate(), in its headless and its live path. *)
(*                                                                         *)
(* Probabilities and draws are exact rationals: a rate is a record         *)
(* [num, den], a draw u stands for u / DrawDen in [0, 1).                  *)
(* Positions are integer grid points, as random.randint returns them.      *)
(***************************************************************************)
EXTENDS Integers, Sequences, FiniteSets, TLC

(* ------------------------------ bounds -------------------------------- *)
MaxPop == 3
MaxDays == 3
GridW == 1
GridH == 0
DrawDen == 3

(* ----------------------- configuration values ------------------------- *)
Variants == {"SIR", "SIR_class", "SEIRS", "SEIRD"}
PopSizes == 1..MaxPop
InfectedCounts == 0..MaxPop
Radii == {0, 1}

Sigmas == {2}
Mus == {2}
Kappas == {1}
Gammas == {[num |-> 1, den |-> 2]}

WIDTH == GridW
HEIGHT == GridH
ALPHA == [num |-> 1, den |-> 2]
BETA == [num |-> 1, den |-> 2]
ETA == [num |-> 1, den |-> 2]

Draws == 0..(DrawDen - 1)

VARIABLES variant, live, POPULATION_SIZE, INITIAL_INFECTED, PROXIMITY,
          MAX_DAYS, SIGMA, MU, KAPPA, GAMMA, individuals, day,
          s_data, e_data, i_data, r_data, d_data, immune_data, pc, idx,
          exposed_by,
          beta, gamma, proximity, population, initial_infected, days,
          susceptible, infected, recovered, s_list, i_list, r_list

\* exposed_by is a history variable: exposed_by[s] lists the agents whose
\* contact pass hit agent s during the day in progress
config == <<variant, live, POPULATION_SIZE, INITIAL_INFECTED, PROXIMITY,
            MAX_DAYS, SIGMA, MU, KAPPA, GAMMA>>
series == <<s_data, e_data, i_data, r_data, d_data, immune_data>>
\* the parameters and the locals of sir_model (graph_sir.py)
ode == <<beta, gamma, proximity, population, initial_infected, days,
         susceptible, infected, recovered, s_list, i_list, r_list>>
vars == <<variant, live, POPULATION_SIZE, INITIAL_INFECTED, PROXIMITY,
          MAX_DAYS, SIGMA, MU, KAPPA, GAMMA, individuals, day,
          s_data, e_data, i_data, r_data, d_data, immune_data, pc, idx,
          exposed_by,
          beta, gamma, proximity, population, initial_infected, days,
          susceptible, infected, recovered, s_list, i_list, r_list>>

(* ------------------------------ helpers ------------------------------- *)
\* random.random() < rate, for the draw u / DrawDen
Less(u, rate) == u * rate.den < rate.num * DrawDen

\* rate * (1 - ALPHA)
Decay(rate) == [num |-> rate.num * (ALPHA.den - ALPHA.num),
                den |-> rate.den * ALPHA.den]

\* Individual.__init__: a Susceptible agent at (x, y) with zeroed counters
Individual(x, y) == [x |-> x, y |-> y, state |-> "S",
                     exposed_duration |-> 0, recovered_days |-> 0,
                     modified_beta |-> BETA, infection_count |-> 0]

\* the square of Individual.distance_to
DistanceSq(p, q) == (p.x - q.x) * (p.x - q.x) + (p.y - q.y) * (p.y - q.y)

\* WithinProximity with the radius taken one unit too large
WithinProximity_Loose(p, q, radius) ==
    radius >= 0 /\ DistanceSq(p, q) <= (radius + 1) * (radius + 1)

\* distance <= PROXIMITY (the distance is a square root, hence >= 0)
WithinProximity(p, q, radius) ==
    radius >= 0 /\ DistanceSq(p, q) <= radius * radius

\* sum(person.state == c for person in individuals)
Count(inds, c) == Cardinality({a \in DOMAIN inds : inds[a].state = c})

HasExposed(v) == v \in {"SEIRS", "SEIRD"}

\* the integer n as a rational
Rat(n) == [num |-> n, den |-> 1]

\* sir_model is not running: its parameters and locals hold nothing
NotCalled ==
    /\ beta = Rat(0) /\ gamma = Rat(0) /\ proximity = Rat(0)
    /\ population = 0 /\ initial_infected = 0 /\ days = 0
    /\ susceptible = Rat(0) /\ infected = Rat(0) /\ recovered = Rat(0)
    /\ s_list = << >> /\ i_list = << >> /\ r_list = << >>

(* --------------------------- construction ----------------------------- *)
\* __init__ of the model class: the parameters are stored unchecked, the
\* population and the series are empty, day is 0
Constructed(vs, lvs, pops, infs, radii, maxd, sigmas, mus, kappas, gammas) ==
    /\ variant \in vs
    /\ live \in lvs
    /\ POPULATION_SIZE \in pops
    /\ INITIAL_INFECTED \in infs
    /\ PROXIMITY \in radii
    /\ MAX_DAYS \in maxd
    /\ SIGMA \in sigmas
    /\ MU \in mus
    /\ KAPPA \in kappas
    /\ GAMMA \in gammas
    /\ individuals = << >>
    /\ day = 0
    /\ s_data = << >> /\ e_data = << >> /\ i_data = << >>
    /\ r_data = << >> /\ d_data = << >> /\ immune_data = << >>
    /\ pc = "new"
    /\ idx = 0
    /\ exposed_by = [a \in 1..POPULATION_SIZE |-> << >>]
    /\ NotCalled

Init == Constructed(Variants, BOOLEAN, PopSizes, InfectedCounts, Radii,
                    {MaxDays}, Sigmas, Mus, Kappas, Gammas)

\* simulate(): the list comprehension creating POPULATION_SIZE agents
Construct ==
    /\ pc = "new"
    /\ \E xs \in [1..POPULATION_SIZE -> 0..WIDTH],
          ys \in [1..POPULATION_SIZE -> 0..HEIGHT] :
          individuals' = [a \in 1..POPULATION_SIZE |-> Individual(xs[a], ys[a])]
    /\ pc' = "built"
    /\ UNCHANGED <<ode, config, exposed_by, day, series, idx>>

\* SampleFails that also rejects an empty sample
SampleFails_ZeroRejected(n, k) == k <= 0 \/ k > n

\* random.sample(individuals, INITIAL_INFECTED) raises ValueError when the
\* sample is larger than the population
SampleFails(n, k) == k < 0 \/ k > n

\* Seed drawing the INITIAL_INFECTED agents with replacement
\* (random.choices in place of random.sample)
Seed_WithReplacement ==
    /\ pc = "built"
    /\ ~SampleFails(Len(individuals), INITIAL_INFECTED)
    /\ \E chosen \in SUBSET (1..Len(individuals)) :
          /\ Cardinality(chosen) <= INITIAL_INFECTED
          /\ INITIAL_INFECTED > 0 => chosen # {}
          /\ individuals' = [a \in 1..Len(individuals) |->
                 IF a \in chosen THEN [individuals[a] EXCEPT !.state = "I"]
                                 ELSE individuals[a]]
    /\ pc' = "loop"
    /\ UNCHANGED <<ode, config, exposed_by, day, series, idx>>

\* simulate(): sample INITIAL_INFECTED distinct agents and force them to 'I'
Seed ==
    /\ pc = "built"
    /\ ~SampleFails(Len(individuals), INITIAL_INFECTED)
    /\ \E chosen \in SUBSET (1..Len(individuals)) :
          /\ Cardinality(chosen) = INITIAL_INFECTED
          /\ individuals' = [a \in 1..Len(individuals) |->
                 IF a \in chosen THEN [individuals[a] EXCEPT !.state = "I"]
                                 ELSE individuals[a]]
    /\ pc' = "loop"
    /\ UNCHANGED <<ode, config, exposed_by, day, series, idx>>

\* simulate(): random.sample raises, the run ends with the agents created
SeedError ==
    /\ pc = "built"
    /\ SampleFails(Len(individuals), INITIAL_INFECTED)
    /\ pc' = "error"
    /\ UNCHANGED <<ode, config, exposed_by, individuals, day, series, idx>>

(* ------------------------------ day loop ------------------------------ *)
\* LoopCond with the day bound off by one more day
LoopCond_LateStop(inds, d, v) ==
    /\ \E a \in DOMAIN inds :
          \/ inds[a].state = "I"
          \/ HasExposed(v) /\ inds[a].state = "E"
    /\ d <= MAX_DAYS + 1

\* LoopCond without the any(...) test
LoopCond_DayOnly(inds, d, v) == d <= MAX_DAYS

\* LoopCond testing for someone not yet 'R' in place of someone 'I'
LoopCond_UntilAllRecovered(inds, d, v) ==
    /\ \E a \in DOMAIN inds : inds[a].state # "R"
    /\ v = "simulation" \/ d <= MAX_DAYS

\* the while condition of simulate(): someone is 'I' (or 'E') and
\* day <= MAX_DAYS; simulate_sir_model has no day bound
LoopCond(inds, d, v) ==
    /\ \E a \in DOMAIN inds :
          \/ inds[a].state = "I"
          \/ HasExposed(v) /\ inds[a].state = "E"
    /\ v = "simulation" \/ d <= MAX_DAYS

\* Branch with a final `else:` in place of `elif person.state == 'R'`
Branch_ElseRecovered(v, st) ==
    IF st = "I" THEN "infectious"
    ELSE IF HasExposed(v) /\ st = "E" THEN "exposed"
    ELSE IF HasExposed(v) /\ st # "S" THEN "recovered"
    ELSE "none"

\* the branch of the if/elif chain that handles a person in state st
Branch(v, st) ==
    IF st = "I" THEN "infectious"
    ELSE IF HasExposed(v) /\ st = "E" THEN "exposed"
    ELSE IF HasExposed(v) /\ st = "R" THEN "recovered"
    ELSE "none"

\* ExposedStep counting an infection on every exposed day
ExposedStep_CountEveryDay(p, v) ==
    IF p.exposed_duration + 1 >= SIGMA
    THEN [p EXCEPT !.state = "I", !.exposed_duration = 0,
                   !.infection_count = IF v = "SEIRD" THEN @ + 1 ELSE @]
    ELSE [p EXCEPT !.exposed_duration = @ + 1,
                   !.infection_count = IF v = "SEIRD" THEN @ + 1 ELSE @]

\* ExposedStep with `>` in place of `>=` in the test against SIGMA
ExposedStep_Late(p, v) ==
    LET q == [p EXCEPT !.exposed_duration = @ + 1] IN
    IF q.exposed_duration > SIGMA
    THEN [q EXCEPT !.state = "I", !.exposed_duration = 0,
                   !.infection_count = IF v = "SEIRD" THEN @ + 1 ELSE @]
    ELSE q

\* ExposedStep without `person.exposed_duration = 0` on the transition
ExposedStep_KeepDuration(p, v) ==
    LET q == [p EXCEPT !.exposed_duration = @ + 1] IN
    IF q.exposed_duration >= SIGMA
    THEN [q EXCEPT !.state = "I",
                   !.infection_count = IF v = "SEIRD" THEN @ + 1 ELSE @]
    ELSE q

\* person.state == 'E': one more exposed day, Infectious from SIGMA on
ExposedStep(p, v) ==
    LET q == [p EXCEPT !.exposed_duration = @ + 1] IN
    IF q.exposed_duration >= SIGMA
    THEN [q EXCEPT !.state = "I", !.exposed_duration = 0,
                   !.infection_count = IF v = "SEIRD" THEN @ + 1 ELSE @]
    ELSE q

\* InfectiousOutcome without the `elif random.random() < self.ETA` branch
InfectiousOutcome_NoLateDeath(v, g, e1, e2) ==
    IF v = "SEIRD"
    THEN IF Less(g, GAMMA)
         THEN (IF Less(e1, ETA) THEN "D" ELSE "R")
         ELSE "stay"
    ELSE IF Less(g, GAMMA) THEN "R" ELSE "stay"

\* person.state == 'I': the recovery and death draws g, e1, e2
InfectiousOutcome(v, g, e1, e2) ==
    IF v = "SEIRD"
    THEN IF Less(g, GAMMA)
         THEN (IF Less(e1, ETA) THEN "D" ELSE "R")
         ELSE IF Less(e2, ETA) THEN "D" ELSE "stay"
    ELSE IF Less(g, GAMMA) THEN "R" ELSE "stay"

\* the values of a death draw: it is made only in SEIRD and only on the
\* side of the recovery test it stands on (0 stands for "not drawn")
DeathDraws(v, reached) == IF v = "SEIRD" /\ reached THEN Draws ELSE {0}

\* DecayedBeta with the decay applied in every class
DecayedBeta_EveryVariant(p, v) == Decay(p.modified_beta)

\* the rate after `modified_beta *= (1 - ALPHA)`; sir.SIR keeps no
\* agent-local rate
DecayedBeta(p, v) == IF v \in {"SIR", "simulation"} THEN p.modified_beta
                     ELSE Decay(p.modified_beta)

\* ContactRate with the undecayed BETA for every class
ContactRate_Undecayed(p, v) == BETA

\* the rate the contact draws are compared with
ContactRate(p, v) == IF v \in {"SIR", "simulation"} THEN BETA
                     ELSE p.modified_beta

\* ContactTarget with the Exposed compartment in every class
ContactTarget_AlwaysExposed(v) == "E"

\* the compartment a contact puts a Susceptible agent into
ContactTarget(v) == IF HasExposed(v) THEN "E" ELSE "I"

\* Eligible that also takes an agent already Exposed
Eligible_OrExposed(p) == p.state \in {"S", "E"}

\* Eligible taking every agent that is not Infectious
Eligible_NotInfectious(p) == p.state # "I"

\* `if other_person.state == 'S'`, read when the inner loop reaches p
Eligible(p) == p.state = "S"

\* the inner loop `for other_person in individuals`, from agent k on:
\* c[k] is the draw made for agent k
RECURSIVE ContactPass(_, _, _, _, _, _)
ContactPass(inds, src, k, c, v, radius) ==
    IF k > Len(inds) THEN inds
    ELSE LET hit == /\ Eligible(inds[k])
                    /\ WithinProximity(inds[src], inds[k], radius)
                    /\ Less(c[k], ContactRate(inds[src], v))
             nxt == IF hit
                    THEN [inds EXCEPT ![k].state = ContactTarget(v)]
                    ELSE inds
         IN  ContactPass(nxt, src, k + 1, c, v, radius)

\* the agents a contact draw is made for: `random.random() < rate` is
\* evaluated only behind `state == 'S'` and `distance <= PROXIMITY`, and
\* only when agent a stays Infectious
ContactDraws(inds, a, v, radius, g, e1, e2) ==
    IF InfectiousOutcome(v, g, e1, e2) = "stay"
    THEN {k \in DOMAIN inds : /\ Eligible(inds[k])
                              /\ WithinProximity(inds[a], inds[k], radius)}
    ELSE {}

\* the agents the contact pass of agent a hits: their draw is below the
\* rate of a, taken after the decay of the day
ContactHits(inds, a, v, radius, g, e1, e2, c) ==
    {k \in ContactDraws(inds, a, v, radius, g, e1, e2) :
        Less(c[k], ContactRate([inds[a] EXCEPT
                                   !.modified_beta = DecayedBeta(inds[a], v)],
                               v))}

\* the whole 'I' branch for agent a
InfectiousStep(inds, a, v, radius, g, e1, e2, c) ==
    LET out == InfectiousOutcome(v, g, e1, e2) IN
    IF out = "stay"
    THEN ContactPass([inds EXCEPT ![a].modified_beta = DecayedBeta(inds[a], v)],
                     a, 1, c, v, radius)
    ELSE [inds EXCEPT ![a].state = out]

\* RecoveredStep giving the agent a fresh rate when it is Susceptible again
RecoveredStep_ResetBeta(p, v) ==
    IF v = "SEIRD" /\ p.infection_count >= KAPPA
    THEN [p EXCEPT !.state = "Immune"]
    ELSE LET q == [p EXCEPT !.recovered_days = @ + 1] IN
         IF q.recovered_days >= MU
         THEN [q EXCEPT !.state = "S", !.recovered_days = 0,
                        !.modified_beta = BETA]
         ELSE q

\* RecoveredStep with the immunity threshold one infection too low
RecoveredStep_OffByOne(p, v) ==
    IF v = "SEIRD" /\ p.infection_count + 1 >= KAPPA
    THEN [p EXCEPT !.state = "Immune"]
    ELSE LET q == [p EXCEPT !.recovered_days = @ + 1] IN
         IF q.recovered_days >= MU
         THEN [q EXCEPT !.state = "S", !.recovered_days = 0]
         ELSE q

\* RecoveredStep counting the recovered day before the immunity check
RecoveredStep_CountFirst(p, v) ==
    LET q == [p EXCEPT !.recovered_days = @ + 1] IN
    IF v = "SEIRD" /\ p.infection_count >= KAPPA
    THEN [q EXCEPT !.state = "Immune"]
    ELSE IF q.recovered_days >= MU
         THEN [q EXCEPT !.state = "S", !.recovered_days = 0]
         ELSE q

\* person.state == 'R': immunity check (SEIRD), then waning after MU days
RecoveredStep(p, v) ==
    IF v = "SEIRD" /\ p.infection_count >= KAPPA
    THEN [p EXCEPT !.state = "Immune"]
    ELSE LET q == [p EXCEPT !.recovered_days = @ + 1] IN
         IF q.recovered_days >= MU
         THEN [q EXCEPT !.state = "S", !.recovered_days = 0]
         ELSE q

\* the day counter after `self.day += 1`; simulate_sir_model counts no days
NextDay(d, v) == IF v = "simulation" THEN d ELSE d + 1

\* the while condition holds: day += 1 and the agent pass starts
DayStart ==
    /\ pc = "loop"
    /\ LoopCond(individuals, day, variant)
    /\ day' = NextDay(day, variant)
    /\ pc' = "pass"
    /\ idx' = 1
    /\ UNCHANGED <<ode, config, exposed_by, individuals, series>>

\* live path: day += 1, then a QUIT event is seen and the process exits
QuitEvent ==
    /\ pc = "loop"
    /\ live
    /\ LoopCond(individuals, day, variant)
    /\ day' = NextDay(day, variant)
    /\ pc' = "quit"
    /\ UNCHANGED <<ode, config, exposed_by, individuals, series, idx>>

\* the while condition fails: simulate() returns
LoopExit ==
    /\ pc = "loop"
    /\ ~LoopCond(individuals, day, variant)
    /\ pc' = "done"
    /\ UNCHANGED <<ode, config, exposed_by, individuals, day, series, idx>>

\* `for person in individuals` moves on, or the pass is over
Advance ==
    IF idx = Len(individuals)
    THEN pc' = "record" /\ idx' = 0
    ELSE pc' = pc /\ idx' = idx + 1

StepExposed ==
    /\ pc = "pass"
    /\ Branch(variant, individuals[idx].state) = "exposed"
    /\ individuals' = [individuals EXCEPT
                          ![idx] = ExposedStep(individuals[idx], variant)]
    /\ Advance
    /\ UNCHANGED <<ode, config, exposed_by, day, series>>

StepInfectious ==
    /\ pc = "pass"
    /\ Branch(variant, individuals[idx].state) = "infectious"
    /\ \E g \in Draws :
       \E e1 \in DeathDraws(variant, Less(g, GAMMA)),
          e2 \in DeathDraws(variant, ~Less(g, GAMMA)) :
          \E c \in [ContactDraws(individuals, idx, variant, PROXIMITY,
                                 g, e1, e2) -> Draws] :
             /\ individuals' = InfectiousStep(individuals, idx, variant,
                                              PROXIMITY, g, e1, e2, c)
             /\ exposed_by' =
                   [s \in DOMAIN exposed_by |->
                      IF s \in ContactHits(individuals, idx, variant,
                                           PROXIMITY, g, e1, e2, c)
                      THEN Append(exposed_by[s], idx) ELSE exposed_by[s]]
    /\ Advance
    /\ UNCHANGED <<ode, config, day, series>>

StepRecovered ==
    /\ pc = "pass"
    /\ Branch(variant, individuals[idx].state) = "recovered"
    /\ individuals' = [individuals EXCEPT
                          ![idx] = RecoveredStep(individuals[idx], variant)]
    /\ Advance
    /\ UNCHANGED <<ode, config, exposed_by, day, series>>

\* no branch of the chain matches: the person is left alone
StepNone ==
    /\ pc = "pass"
    /\ Branch(variant, individuals[idx].state) = "none"
    /\ Advance
    /\ UNCHANGED <<ode, config, exposed_by, individuals, day, series>>

(* ----------------------------- time series ---------------------------- *)
\* Snapshot with the Susceptible and the Infectious count appended to each
\* other's series
Snapshot_SwapSI(inds, v, lv) ==
    LET s == Count(inds, "S")
        e == Count(inds, "E")
        i == Count(inds, "I")
        r == Count(inds, "R")
        d == Count(inds, "D")
        m == Count(inds, "Immune")
    IN  [s |-> <<i>>, e |-> IF HasExposed(v) THEN <<e>> ELSE << >>,
         i |-> <<s>>, r |-> <<r>>,
         d |-> IF v = "SEIRD" THEN <<d>> ELSE << >>,
         immune |-> IF v = "SEIRD" /\ lv THEN <<m>> ELSE << >>]

\* what the end of a day appends to each series (<< >>: nothing)
Snapshot(inds, v, lv) ==
    LET s == Count(inds, "S")
        e == Count(inds, "E")
        i == Count(inds, "I")
        r == Count(inds, "R")
        d == Count(inds, "D")
        m == Count(inds, "Immune")
    IN  IF v = "simulation"
        THEN [s |-> << >>, e |-> << >>, i |-> << >>, r |-> << >>,
              d |-> << >>, immune |-> << >>]
        ELSE IF v \in {"SIR", "SIR_class"}
        THEN [s |-> <<s>>, e |-> << >>, i |-> <<i>>, r |-> <<r>>,
              d |-> << >>, immune |-> << >>]
        ELSE IF v = "SEIRS"
        THEN IF lv
             THEN [s |-> <<s>>, e |-> <<r>>, i |-> <<i>>, r |-> <<e>>,
                   d |-> << >>, immune |-> << >>]
             ELSE [s |-> <<s>>, e |-> <<e>>, i |-> <<i>>, r |-> <<r>>,
                   d |-> << >>, immune |-> << >>]
        ELSE IF lv
             THEN [s |-> <<s>>, e |-> <<e>>, i |-> <<i>>, r |-> <<r>>,
                   d |-> <<d>>, immune |-> <<m>>]
             ELSE [s |-> <<s>>, e |-> <<e>>, i |-> <<i>>, r |-> <<r>>,
                   d |-> <<d>>, immune |-> << >>]

\* the appends at the end of a day
Record ==
    /\ pc = "record"
    /\ LET snap == Snapshot(individuals, variant, live) IN
          /\ s_data' = s_data \o snap.s
          /\ e_data' = e_data \o snap.e
          /\ i_data' = i_data \o snap.i
          /\ r_data' = r_data \o snap.r
          /\ d_data' = d_data \o snap.d
          /\ immune_data' = immune_data \o snap.immune
    /\ exposed_by' = [s \in DOMAIN exposed_by |-> << >>]
    /\ pc' = "loop"
    /\ UNCHANGED <<ode, config, individuals, day, idx>>

Next ==
    \/ Construct
    \/ Seed
    \/ SeedError
    \/ DayStart
    \/ QuitEvent
    \/ LoopExit
    \/ StepExposed
    \/ StepInfectious
    \/ StepRecovered
    \/ StepNone
    \/ Record

Spec == Init /\ [][Next]_vars

(* ============================== claims ================================ *)
\* the value series sr records for day d (days are numbered from 1 in the
\* sequences); 0 when nothing was recorded for that day
RecordedAt(sr, d) == IF d \in DOMAIN sr THEN sr[d] ELSE 0

\* the sum, for day d, over the series of the compartments active in the
\* variant
RecordedSum(d) ==
    IF variant \in {"SIR", "SIR_class"}
    THEN RecordedAt(s_data, d) + RecordedAt(i_data, d) + RecordedAt(r_data, d)
    ELSE IF variant = "SEIRS"
    THEN RecordedAt(s_data, d) + RecordedAt(e_data, d)
         + RecordedAt(i_data, d) + RecordedAt(r_data, d)
    ELSE RecordedAt(s_data, d) + RecordedAt(e_data, d)
         + RecordedAt(i_data, d) + RecordedAt(r_data, d)
         + RecordedAt(d_data, d) + RecordedAt(immune_data, d)

\* C1 (Conservation): for every recorded day, the counts recorded over the
\* compartments active in the variant sum to POPULATION_SIZE.
\* Violated: the headless SEIRD path never appends to immune_data, so the
\* recorded counts of a day with an Immune agent sum to less.
C1_Conservation ==
    \A d \in 1..Len(s_data) : RecordedSum(d) = POPULATION_SIZE

\* the SEIRD class alone, with both incubation lengths, so that an agent
\* can become Immune and still be processed on a later day
InitSEIRD == Constructed({"SEIRD"}, BOOLEAN, {MaxPop}, 1..(MaxPop + 1),
                         {1}, {MaxDays}, {1, 2}, Mus, Kappas, Gammas)

SpecSEIRD == InitSEIRD /\ [][Next]_vars

Terminal(st) == st \in {"D", "Immune"}

\* C2 (Terminality): once an agent is Dead or Immune, no step - of the
\* same day or of a later day - changes its compartment.
C2_Terminality ==
    [][\A a \in DOMAIN individuals :
          Terminal(individuals[a].state)
             => /\ a \in DOMAIN individuals'
                /\ individuals'[a].state = individuals[a].state]_vars

\* an agent recorded Dead on day 1 and an agent recorded Immune on day 3
\* are both still so after day 4 has been run and recorded
C2_Witness ==
    /\ Len(d_data) >= 4
    /\ Len(immune_data) >= 4
    /\ d_data[1] >= 1
    /\ immune_data[3] >= 1
    /\ \E a \in DOMAIN individuals : individuals[a].state = "D"
    /\ \E a \in DOMAIN individuals : individuals[a].state = "Immune"

\* the series of the compartments active in the variant
ModelSeries ==
    IF variant \in {"SIR", "SIR_class"} THEN {s_data, i_data, r_data}
    ELSE IF variant = "SEIRS" THEN {s_data, e_data, i_data, r_data}
    ELSE {s_data, e_data, i_data, r_data, d_data, immune_data}

AllSeries == {s_data, e_data, i_data, r_data, d_data, immune_data}

SomeoneInfectious(inds) ==
    \E a \in DOMAIN inds : inds[a].state \in {"E", "I"}

\* C3 (Termination): no series ever holds more than MAX_DAYS + 1 snapshots,
\* and a day is started only while some agent is Exposed or Infectious.
C3_Termination ==
    [][/\ \A sr \in {s_data', e_data', i_data', r_data', d_data',
                     immune_data'} : Len(sr) <= MAX_DAYS + 1
       /\ day' # day => SomeoneInfectious(individuals)]_vars

\* a run stopped by the day bound alone: MAX_DAYS + 1 days recorded, the
\* loop left while an agent is still Infectious
C3_Witness ==
    /\ pc = "done"
    /\ day = MAX_DAYS + 1
    /\ Len(s_data) = MAX_DAYS + 1
    /\ SomeoneInfectious(individuals)

DaysRecorded == IF pc \in {"pass", "record", "quit"} THEN day - 1 ELSE day

C6_OneSnapshotPerDay ==
    pc \in {"loop", "done"}
       => \A sr \in ModelSeries : Len(sr) = day

\* the value series sr holds for day d, when it holds one, is n
StoredIs(sr, d, n) == d \in DOMAIN sr => sr[d] = n

\* C7 (series correct per compartment): the value stored for a day in the
\* series of compartment X is the number of agents in X at the end of
\* that day.
\* Violated: the live SEIRS path appends the Exposed count to r_data and
\* the Recovered count to e_data.
C7_SeriesPerCompartment ==
    pc \in {"loop", "done"} /\ day >= 1
       => /\ StoredIs(s_data, day, Count(individuals, "S"))
          /\ StoredIs(e_data, day, Count(individuals, "E"))
          /\ StoredIs(i_data, day, Count(individuals, "I"))
          /\ StoredIs(r_data, day, Count(individuals, "R"))
          /\ StoredIs(d_data, day, Count(individuals, "D"))
          /\ StoredIs(immune_data, day, Count(individuals, "Immune"))

\* the configurations the interface admits: positive sizes, radius, day
\* count and rates, 0 <= initial_infected <= population size
Positive(rate) == rate.num > 0 /\ rate.den > 0

ValidConfig ==
    /\ POPULATION_SIZE > 0
    /\ PROXIMITY > 0
    /\ MAX_DAYS > 0
    /\ SIGMA > 0 /\ MU > 0 /\ KAPPA > 0
    /\ Positive(ALPHA) /\ Positive(BETA) /\ Positive(GAMMA) /\ Positive(ETA)
    /\ INITIAL_INFECTED >= 0
    /\ INITIAL_INFECTED <= POPULATION_SIZE

\* C8 (validation first): an invalid configuration leaves no partial state
\* behind - no agent, no day, no series entry.
\* Violated: the classes validate nothing; the agents are created before
\* random.sample raises, and a radius of 0 is simulated to the end.
C8_ValidatedBeforeConstruction ==
    ~ValidConfig
       => /\ individuals = << >>
          /\ day = 0
          /\ \A sr \in AllSeries : sr = << >>

\* C9 (as claimed, Scenario B): with initial_infected = 0 and a positive
\* population, validation fails before any agent exists and no day is run.
C9_ScenarioB ==
    INITIAL_INFECTED = 0 /\ POPULATION_SIZE > 0
       => individuals = << >> /\ day = 0

\* C9 (amended): with initial_infected = 0 and a positive population the
\* configuration is accepted: nothing raises, simulate() creates all
\* POPULATION_SIZE agents, and no day is run.
C9_ZeroInfectedAccepted ==
    INITIAL_INFECTED = 0 /\ POPULATION_SIZE > 0
       => /\ pc # "error"
          /\ pc # "new" => Len(individuals) = POPULATION_SIZE
          /\ day = 0

C9_Witness ==
    /\ INITIAL_INFECTED = 0
    /\ POPULATION_SIZE = MaxPop
    /\ Len(individuals) = MaxPop
    /\ pc = "done"

\* agent a is Susceptible before the step and not after it
Exposed(a) ==
    /\ individuals[a].state = "S"
    /\ a \in DOMAIN individuals'
    /\ individuals'[a].state # "S"

SameCoordinates(p, q) == p.x = q.x /\ p.y = q.y

NoSharedCoordinates(inds) ==
    \A a, b \in DOMAIN inds :
       a # b => ~SameCoordinates(inds[a], inds[b])

\* C10 (as claimed, Scenario C): with proximity radius 0 no Susceptible
\* agent is exposed or infected by any step of the agent pass, whatever
\* the placement.
C10_NoExposureAtRadiusZero ==
    [][PROXIMITY = 0 /\ pc = "pass"
          => \A a \in DOMAIN individuals : ~Exposed(a)]_vars

\* C10 (amended): with proximity radius 0 a Susceptible agent is exposed
\* or infected only by an Infectious agent on exactly its own coordinates;
\* when no two agents share coordinates there is no exposure at all and
\* the Infectious count never increases during the day loop.
C10_RadiusZeroSameCoordinates ==
    [][PROXIMITY = 0 /\ pc = "pass"
          => /\ \A a \in DOMAIN individuals :
                   Exposed(a)
                      => /\ a # idx
                         /\ individuals[idx].state = "I"
                         /\ SameCoordinates(individuals[idx], individuals[a])
             /\ NoSharedCoordinates(individuals)
                   => /\ \A a \in DOMAIN individuals : ~Exposed(a)
                      /\ Count(individuals', "I") <= Count(individuals, "I")]_vars

\* radius 0, all agents on different coordinates: an agent has stayed
\* Infectious for two days beside a Susceptible agent, which is still
\* Susceptible
C10_Witness ==
    /\ PROXIMITY = 0
    /\ NoSharedCoordinates(individuals)
    /\ day >= 2 /\ pc = "loop"
    /\ \E a, b \in DOMAIN individuals :
          /\ individuals[a].state = "I"
          /\ individuals[b].state = "S"
    /\ i_data = <<1, 1>>

\* C11 (Scenario D, SEIRD with KAPPA = 1): an agent that is Infectious for
\* the first time, seeded agents included, has infection_count = 1, and an
\* agent that has recovered is waiting for its Immune step with
\* recovered_days still 0 - it never starts the waning count.
\* Violated: seeding sets state = 'I' without counting the infection, so a
\* seeded agent recovers with infection_count = 0 and wanes back to 'S'.
C11_ScenarioD ==
    variant = "SEIRD" /\ KAPPA = 1
       => \A a \in DOMAIN individuals :
             /\ individuals[a].state = "I"
                   => individuals[a].infection_count >= 1
             /\ individuals[a].state = "R"
                   => /\ individuals[a].infection_count = 1
                      /\ individuals[a].recovered_days = 0

(* --------------------------- Scenario A ------------------------------- *)
\* the scenario's population, all of it seeded, and a recovery
\* probability of 1, in the classes without a death branch
ScenarioPop == 10

InitScenarioA ==
    Constructed({"SIR", "SIR_class", "SEIRS"}, BOOLEAN, {ScenarioPop},
                {ScenarioPop}, Radii, {MaxDays}, Sigmas, Mus, Kappas,
                {[num |-> 1, den |-> 1]})

\* the steps of simulate() the scenario can take: the sample never fails
\* and every agent is Infectious when the pass comes to it
NextScenarioA ==
    \/ Construct
    \/ Seed
    \/ DayStart
    \/ QuitEvent
    \/ LoopExit
    \/ StepInfectious
    \/ Record

SpecScenarioA == InitScenarioA /\ [][NextScenarioA]_vars

\* C12 (Scenario A): every agent seeded and GAMMA = 1: no contact draw is
\* made on day 1, the day-1 snapshot shows Infectious = 0 and
\* Recovered = the whole population, and the run stops after that day.
\* Violated: the live SEIRS path stores the Exposed count in r_data (the
\* r_data / e_data swap of C7), so the snapshot shows Recovered = 0.
C12_ScenarioA ==
    /\ pc = "pass"
          => /\ individuals[idx].state = "I"
             /\ \A g \in Draws :
                   ContactDraws(individuals, idx, variant, PROXIMITY,
                                g, 0, 0) = {}
    /\ pc \in {"loop", "done"} /\ day >= 1
          => /\ day = 1
             /\ ~LoopCond(individuals, day, variant)
             /\ Count(individuals, "I") = 0
             /\ Count(individuals, "R") = POPULATION_SIZE
             /\ i_data = <<0>>
             /\ r_data = <<POPULATION_SIZE>>

\* ---------------------------------------------------------------------
\* C13 (Monotonicity): an agent's infection_count never decreases; a step
\* either leaves it alone or adds exactly 1, and it adds 1 only in a step
\* that takes the agent from Exposed to Infectious.
InfectionCountStep(a) ==
    \/ individuals'[a].infection_count = individuals[a].infection_count
    \/ /\ individuals'[a].infection_count = individuals[a].infection_count + 1
       /\ individuals[a].state = "E"
       /\ individuals'[a].state = "I"

C13_Monotonicity ==
    [][\A a \in (DOMAIN individuals) \cap (DOMAIN individuals') :
          InfectionCountStep(a)]_vars

C13_Witness ==
    \E a \in DOMAIN individuals :
       /\ individuals[a].infection_count = 1
       /\ individuals[a].state \in {"R", "D", "Immune"}

\* ---------------------------------------------------------------------
\* C15 (Contact resolution): when the Infectious agent a stays infectious,
\* an agent s changes compartment if and only if it is Susceptible, within
\* PROXIMITY of a, and its draw is below a's effective transmission rate
\* (BETA in sir.SIR, the decayed agent-local rate elsewhere); it then
\* becomes Exposed in SEIRS/SEIRD and Infectious in the SIR classes, and
\* nothing else of any other agent changes.
EffectiveRate(a) ==
    IF variant = "SIR" THEN BETA ELSE Decay(individuals[a].modified_beta)

Contracted(a, s, c) ==
    /\ individuals[s].state = "S"
    /\ DistanceSq(individuals[a], individuals[s]) <= PROXIMITY * PROXIMITY
    /\ s \in DOMAIN c
    /\ Less(c[s], EffectiveRate(a))

ContactResolved(a, c, after) ==
    \A s \in DOMAIN individuals :
       /\ after[s].state # individuals[s].state <=> Contracted(a, s, c)
       /\ Contracted(a, s, c)
             => after[s].state = IF variant \in {"SEIRS", "SEIRD"}
                                 THEN "E" ELSE "I"
       /\ s # a => after[s] = [individuals[s] EXCEPT !.state = after[s].state]

C15_ContactResolution ==
    pc = "pass" /\ individuals[idx].state = "I"
       => \A g \in Draws :
          \A e2 \in DeathDraws(variant, ~Less(g, GAMMA)) :
             InfectiousOutcome(variant, g, 0, e2) = "stay"
                => \A c \in [ContactDraws(individuals, idx, variant, PROXIMITY,
                                          g, 0, e2) -> Draws] :
                      ContactResolved(idx, c,
                         InfectiousStep(individuals, idx, variant, PROXIMITY,
                                        g, 0, e2, c))

\* on day 1 the only seeded agent has stayed infectious, has exposed an
\* agent on its own coordinates and has left one out of range Susceptible
C15_Witness ==
    /\ day = 1 /\ INITIAL_INFECTED = 1 /\ PROXIMITY = 0
    /\ \E a, s, t \in DOMAIN individuals :
          /\ individuals[a].state = "I"
          /\ individuals[a].modified_beta # BETA
          /\ individuals[s].state = "E"
          /\ DistanceSq(individuals[a], individuals[s]) = 0
          /\ individuals[t].state = "S"
          /\ DistanceSq(individuals[a], individuals[t]) > 0

\* ---------------------------------------------------------------------
\* C16 (Same-day visibility): a contact pass reads the compartments as the
\* agents processed before it have left them: an agent hit earlier in the
\* day is not eligible for, and is not changed by, the pass of another
\* agent processed now, and no agent is hit more than once in a day.
C16_SameDayVisibility ==
    /\ \A s \in DOMAIN exposed_by : Len(exposed_by[s]) <= 1
    /\ pc = "pass" /\ individuals[idx].state = "I"
          => \A s \in DOMAIN individuals :
                s # idx /\ Len(exposed_by[s]) >= 1
                   => \A g \in Draws :
                      \A e2 \in DeathDraws(variant, ~Less(g, GAMMA)) :
                      \A c \in [ContactDraws(individuals, idx, variant,
                                             PROXIMITY, g, 0, e2) -> Draws] :
                         /\ s \notin DOMAIN c
                         /\ InfectiousStep(individuals, idx, variant,
                                           PROXIMITY, g, 0, e2, c)[s]
                               = individuals[s]

\* agent s was hit by agent a, and agent b, processed after a and within
\* reach of s, has stayed Infectious and run its contact pass
C16_Witness ==
    /\ pc = "record" /\ day = 1
    /\ \E a, b, s \in DOMAIN individuals :
          /\ exposed_by[s] = <<a>>
          /\ a < b
          /\ individuals[b].state = "I"
          /\ individuals[b].modified_beta # BETA
          /\ variant # "SIR"
          /\ WithinProximity(individuals[b], individuals[s], PROXIMITY)

\* ---------------------------------------------------------------------
\* C17 (Cooperative cancellation): a quit event is seen only at the loop
\* head, between two days; seeing it changes no agent and no series, and
\* leaves the day counter equal to the number of recorded days.
\* Violated: the classes run `self.day += 1` before they poll the events,
\* so at the exit the day counter is one ahead of the recorded days.
C17_CooperativeCancellation ==
    [][pc' = "quit"
          => /\ pc = "loop"
             /\ individuals' = individuals
             /\ series' = series
             /\ day' = Len(s_data')]_vars

InitSimulation ==
    Constructed({"simulation"}, {TRUE}, PopSizes, InfectedCounts, Radii,
                {MaxDays}, Sigmas, Mus, Kappas, Gammas)

NextSimulation ==
    \/ Construct
    \/ Seed
    \/ SeedError
    \/ DayStart
    \/ QuitEvent
    \/ LoopExit
    \/ StepInfectious
    \/ StepNone
    \/ Record

SpecSimulation == InitSimulation /\ [][NextSimulation]_vars

\* C19: simulate_sir_model runs until all individuals are recovered: when
\* it returns, every individual of the returned list is in state 'R'.
\* Violated: the loop stops as soon as nobody is 'I', and agents that were
\* never infected are returned in state 'S'.
C19_AllRecoveredOnReturn ==
    pc = "done" => \A a \in DOMAIN individuals : individuals[a].state = "R"

(* ------------------- sir_model (SIR/graph_sir.py) --------------------- *)
\* The closed-form integrator: no agents. Its floats are exact rationals
\* [num, den] with den > 0, kept in lowest terms.
MaxOdeDays == 2

OdeRates == {[num |-> -1, den |-> 2], Rat(0), [num |-> 1, den |-> 2]}
OdeGammas == {Rat(0), [num |-> 1, den |-> 2]}
OdeProximities == {Rat(0), Rat(1)}
OdePopulations == {0, 2}
OdeInfected == {-1, 0, 1, 3}
OdeDays == 0..MaxOdeDays

Abs(n) == IF n < 0 THEN -n ELSE n

RECURSIVE Gcd(_, _)
Gcd(a, b) == IF b = 0 THEN a ELSE Gcd(b, a % b)

Norm(r) == LET g == Gcd(Abs(r.num), r.den) IN
           [num |-> r.num \div g, den |-> r.den \div g]

Plus(p, q) == Norm([num |-> p.num * q.den + q.num * p.den,
                    den |-> p.den * q.den])
Minus(p, q) == Norm([num |-> p.num * q.den - q.num * p.den,
                     den |-> p.den * q.den])
Times(p, q) == Norm([num |-> p.num * q.num, den |-> p.den * q.den])
\* p / n for an integer n > 0
Over(p, n) == Norm([num |-> p.num, den |-> p.den * n])

\* the agent classes are not in use while sir_model runs
NoPopulation ==
    /\ variant = "sir_model" /\ live = FALSE
    /\ POPULATION_SIZE = 0 /\ INITIAL_INFECTED = 0 /\ PROXIMITY = 0
    /\ MAX_DAYS = 0 /\ SIGMA = 0 /\ MU = 0 /\ KAPPA = 0 /\ GAMMA = Rat(0)
    /\ individuals = << >> /\ day = 0 /\ idx = 0
    /\ s_data = << >> /\ e_data = << >> /\ i_data = << >>
    /\ r_data = << >> /\ d_data = << >> /\ immune_data = << >>
    /\ exposed_by = << >>

agents == <<config, individuals, day, series, idx, exposed_by>>

\* a call sir_model(beta, gamma, proximity, population, initial_infected,
\* days)
InitOde ==
    /\ NoPopulation
    /\ pc = "call"
    /\ beta \in OdeRates
    /\ gamma \in OdeGammas
    /\ proximity \in OdeProximities
    /\ population \in OdePopulations
    /\ initial_infected \in OdeInfected
    /\ days \in OdeDays
    /\ susceptible = Rat(0) /\ infected = Rat(0) /\ recovered = Rat(0)
    /\ s_list = << >> /\ i_list = << >> /\ r_list = << >>

\* RaisesValueError that also rejects initial_infected = 0
RaisesValueError_ZeroInfected(b, g, p, n, k, d) ==
    b.num <= 0 \/ g.num <= 0 \/ p.num <= 0 \/ n <= 0 \/ k <= 0 \/ d <= 0

\* the test in front of `raise ValueError`
RaisesValueError(b, g, p, n, k, d) ==
    b.num <= 0 \/ g.num <= 0 \/ p.num <= 0 \/ n <= 0 \/ k < 0 \/ d <= 0

SirModelRaise ==
    /\ pc = "call"
    /\ RaisesValueError(beta, gamma, proximity, population,
                        initial_infected, days)
    /\ pc' = "raised"
    /\ UNCHANGED <<agents, ode>>

\* the three accumulators and the three lists are set up
SirModelStart ==
    /\ pc = "call"
    /\ ~RaisesValueError(beta, gamma, proximity, population,
                         initial_infected, days)
    /\ susceptible' = Rat(population - initial_infected)
    /\ infected' = Rat(initial_infected)
    /\ recovered' = Rat(0)
    /\ s_list' = <<susceptible'>>
    /\ i_list' = <<infected'>>
    /\ r_list' = <<recovered'>>
    /\ pc' = "for"
    /\ UNCHANGED <<agents, beta, gamma, proximity, population,
                   initial_infected, days>>

\* one iteration of `for day in range(days)`
SirModelDay ==
    /\ pc = "for"
    /\ Len(s_list) - 1 < days
    /\ LET contacts == Over(Times(Times(beta, susceptible), infected),
                            population)
           new_infected == Times(contacts, proximity)
           new_recovered == Times(gamma, infected)
       IN  /\ susceptible' = Minus(susceptible, new_infected)
           /\ infected' = Minus(Plus(infected, new_infected), new_recovered)
           /\ recovered' = Plus(recovered, new_recovered)
    /\ s_list' = Append(s_list, susceptible')
    /\ i_list' = Append(i_list, infected')
    /\ r_list' = Append(r_list, recovered')
    /\ UNCHANGED <<agents, pc, beta, gamma, proximity, population,
                   initial_infected, days>>

\* range(days) is exhausted: return s_list, i_list, r_list
SirModelReturn ==
    /\ pc = "for"
    /\ Len(s_list) - 1 >= days
    /\ pc' = "returned"
    /\ UNCHANGED <<agents, ode>>

NextOde ==
    \/ SirModelRaise
    \/ SirModelStart
    \/ SirModelDay
    \/ SirModelReturn

SpecOde == InitOde /\ [][NextOde]_vars

\* C20: sir_model raises ValueError, with no list computed, exactly when
\* beta, gamma, proximity, population or days is <= 0 or initial_infected
\* is < 0; otherwise it returns three lists of length days + 1 that start
\* with population - initial_infected, initial_infected and 0.
NonPositive(r) == r.num <= 0

InvalidCall ==
    \/ NonPositive(beta) \/ NonPositive(gamma) \/ NonPositive(proximity)
    \/ population <= 0 \/ days <= 0
    \/ initial_infected < 0

C20_SirModel ==
    /\ pc = "raised"
          => InvalidCall /\ s_list = << >> /\ i_list = << >> /\ r_list = << >>
    /\ InvalidCall => pc \in {"call", "raised"}
    /\ pc = "returned"
          => /\ ~InvalidCall
             /\ Len(s_list) = days + 1
             /\ Len(i_list) = days + 1
             /\ Len(r_list) = days + 1
             /\ s_list[1] = Rat(population - initial_infected)
             /\ i_list[1] = Rat(initial_infected)
             /\ r_list[1] = Rat(0)

C20_Witness ==
    /\ pc = "returned"
    /\ initial_infected = 0
    /\ days = MaxOdeDays
    /\ Len(s_list) = MaxOdeDays + 1

\* ---------------------------------------------------------------------
\* C21 (Infectious step, SEIRD): an Infectious agent processed on a day
\* ends Dead, Recovered or still Infectious; it can die after a successful
\* and after a failed recovery draw; only when it stays Infectious is its
\* rate decayed and a contact pass run: when it recovers or dies no draw
\* is made for a contact and no other agent, and nothing else of the
\* agent, changes.
InfectiousStepOutcomes(a, g, e1, e2) ==
    \A c \in [ContactDraws(individuals, a, variant, PROXIMITY, g, e1, e2)
                 -> Draws] :
       LET after == InfectiousStep(individuals, a, variant, PROXIMITY,
                                   g, e1, e2, c)
       IN  /\ after[a].state \in {"D", "R", "I"}
           /\ after[a].state = "I"
                 => after[a] = [individuals[a] EXCEPT
                       !.modified_beta = Decay(individuals[a].modified_beta)]
           /\ after[a].state # "I"
                 => /\ DOMAIN c = {}
                    /\ after = [individuals EXCEPT
                                   ![a].state = after[a].state]

C21_InfectiousStep ==
    variant = "SEIRD" /\ pc = "pass" /\ individuals[idx].state = "I"
       => /\ \A g \in Draws :
             \A e1 \in DeathDraws(variant, Less(g, GAMMA)),
                e2 \in DeathDraws(variant, ~Less(g, GAMMA)) :
                InfectiousStepOutcomes(idx, g, e1, e2)
          /\ \E g, e1 \in Draws :
                /\ Less(g, GAMMA) /\ Less(e1, ETA)
                /\ InfectiousStep(individuals, idx, variant, PROXIMITY,
                                  g, e1, 0, << >>)[idx].state = "D"
          /\ \E g, e2 \in Draws :
                /\ ~Less(g, GAMMA) /\ Less(e2, ETA)
                /\ InfectiousStep(individuals, idx, variant, PROXIMITY,
                                  g, 0, e2, << >>)[idx].state = "D"

\* the only seeded agent has died on day 1 next to a Susceptible agent
\* within reach, and nobody was exposed that day
C21_Witness ==
    /\ variant = "SEIRD" /\ pc = "record" /\ day = 1
    /\ INITIAL_INFECTED = 1
    /\ \E a, s \in DOMAIN individuals :
          /\ individuals[a].state = "D"
          /\ individuals[s].state = "S"
          /\ WithinProximity(individuals[a], individuals[s], PROXIMITY)
    /\ \A s \in DOMAIN exposed_by : exposed_by[s] = << >>

\* ---------------------------------------------------------------------
\* Runs with reinfection: one day of incubation, one day of waning, and
\* immunity only after the second infection
InitCycles ==
    Constructed({"SIR_class", "SEIRS", "SEIRD"}, BOOLEAN, {MaxPop},
                1..(MaxPop + 1), {1}, {MaxDays}, {1}, {1}, {2}, Gammas)

SpecCycles == InitCycles /\ [][Next]_vars

\* BETA after n decays
RECURSIVE DecayN(_)
DecayN(n) == IF n = 0 THEN BETA ELSE Decay(DecayN(n - 1))

\* the step processes agent a as Infectious and leaves it Infectious
StaysInfectious(a) ==
    /\ pc = "pass" /\ idx = a
    /\ individuals[a].state = "I"
    /\ individuals'[a].state = "I"

\* every contact draw of the agent about to be processed is compared with
\* its rate after the decay of the day
DrawsUseDecayedRate ==
    pc = "pass" /\ individuals[idx].state = "I"
       => \A g \in Draws :
          \A e2 \in DeathDraws(variant, ~Less(g, GAMMA)) :
          \A c \in [ContactDraws(individuals, idx, variant, PROXIMITY,
                                 g, 0, e2) -> Draws] :
             LET after == InfectiousStep(individuals, idx, variant,
                                         PROXIMITY, g, 0, e2, c)
             IN  \A s \in DOMAIN c :
                    after[s].state # "S"
                       <=> Less(c[s], Decay(individuals[idx].modified_beta))

PermanentDecayStep ==
    variant \in {"SIR_class", "SEIRS", "SEIRD"}
       => /\ DrawsUseDecayedRate
          /\ \A a \in (DOMAIN individuals) \cap (DOMAIN individuals') :
                /\ individuals'[a].modified_beta
                      = IF StaysInfectious(a)
                        THEN Decay(individuals[a].modified_beta)
                        ELSE individuals[a].modified_beta
                /\ \E n \in 0..day' :
                      individuals'[a].modified_beta = DecayN(n)

InitSIR ==
    \/ Constructed({"SIR", "SIR_class"}, BOOLEAN, PopSizes, InfectedCounts,
                   Radii, {MaxDays}, Sigmas, Mus, Kappas, Gammas)
    \/ InitSimulation

\* the steps an SIR program can take: it has no 'E' and no 'R' branch
NextSIR ==
    \/ Construct
    \/ Seed
    \/ SeedError
    \/ DayStart
    \/ QuitEvent
    \/ LoopExit
    \/ StepInfectious
    \/ StepNone
    \/ Record

SpecSIR == InitSIR /\ [][NextSIR]_vars

\* agent a stays Infectious on the draws g, c: its rate afterwards is
\* `rate`, and exactly the agents whose draw is below `rate` are infected
StaysWithRate(a, g, c, rate) ==
    LET after == InfectiousStep(individuals, a, variant, PROXIMITY,
                                g, 0, 0, c)
    IN  /\ after[a].modified_beta = rate
        /\ \A s \in DOMAIN c : after[s].state = "I" <=> Less(c[s], rate)

\* the draws g, c on which the agent at idx stays Infectious
StayDraws ==
    {d \in [g : Draws,
            c : UNION {[t -> Draws] : t \in SUBSET DOMAIN individuals}] :
        /\ ~Less(d.g, GAMMA)
        /\ DOMAIN d.c = ContactDraws(individuals, idx, variant, PROXIMITY,
                                     d.g, 0, 0)}

\* C23: in every SIR variant an Infectious agent that does not recover has
\* its rate multiplied by (1 - ALPHA) before its contacts are resolved,
\* and the contact draws are compared with that decayed rate.
\* Violated: sir.SIR and simulate_sir_model have no ALPHA and compare the
\* draws with the constant BETA.
C23_SirDecay ==
    pc = "pass" /\ individuals[idx].state = "I"
       => \A d \in StayDraws :
             StaysWithRate(idx, d.g, d.c,
                           Decay(individuals[idx].modified_beta))

\* C23 amended: sir_class.SIR decays the agent's rate before the contacts
\* and compares the draws with it; sir.SIR and simulate_sir_model keep no
\* agent-local rate and compare every draw with the constant BETA.
C23_DecayInSirClassOnly ==
    pc = "pass" /\ individuals[idx].state = "I"
       => \A d \in StayDraws :
             IF variant = "SIR_class"
             THEN StaysWithRate(idx, d.g, d.c,
                                Decay(individuals[idx].modified_beta))
             ELSE /\ individuals[idx].modified_beta = BETA
                  /\ StaysWithRate(idx, d.g, d.c, BETA)

\* sir.SIR, day 1: the only seeded agent stayed Infectious and infected
\* another agent, and its rate is still BETA
C23_Witness ==
    /\ variant = "SIR" /\ pc = "record" /\ day = 1
    /\ INITIAL_INFECTED = 1
    /\ Count(individuals, "I") >= 2
    /\ \A a \in DOMAIN individuals : individuals[a].modified_beta = BETA

\* ---------------------------------------------------------------------
\* C24: in a SEIRD run infection_count is the number of times the agent's
\* compartment became Infectious since the population was created, the
\* initial seeding included: both start at 0, and a step adds 1 to the
\* counter exactly when it makes the agent Infectious.
\* Violated: seeding makes an agent Infectious and leaves the counter at 0.
EntersInfectious(a) ==
    individuals[a].state # "I" /\ individuals'[a].state = "I"

C24_CountsEveryInfection ==
    [][variant = "SEIRD"
          => \A a \in (DOMAIN individuals) \cap (DOMAIN individuals') :
                individuals'[a].infection_count
                   = individuals[a].infection_count
                        + (IF EntersInfectious(a) THEN 1 ELSE 0)]_vars

\* ---------------------------------------------------------------------
\* C25 (Exposed step, SEIRS/SEIRD): the step that processes an Exposed
\* agent adds 1 to its exposed_duration; if that reaches SIGMA the agent
\* becomes Infectious with exposed_duration 0 (and, in SEIRD only, one more
\* infection counted), otherwise it stays Exposed; an Exposed agent becomes
\* Infectious in no other step and is never Exposed with
\* exposed_duration >= SIGMA.
ProcessedExposed(a) ==
    pc = "pass" /\ idx = a /\ individuals[a].state = "E"

ExposedStepTaken(a) ==
    IF individuals[a].exposed_duration + 1 >= SIGMA
    THEN individuals'[a] =
            [individuals[a] EXCEPT
                !.state = "I",
                !.exposed_duration = 0,
                !.infection_count = IF variant = "SEIRD" THEN @ + 1 ELSE @]
    ELSE individuals'[a] =
            [individuals[a] EXCEPT !.exposed_duration = @ + 1]

ExposedStepOnly ==
    variant \in {"SEIRS", "SEIRD"}
       => \A a \in (DOMAIN individuals) \cap (DOMAIN individuals') :
             /\ ProcessedExposed(a) => ExposedStepTaken(a)
             /\ individuals[a].state = "E" /\ ~ProcessedExposed(a)
                   => individuals'[a] = individuals[a]
             /\ individuals'[a].state = "E"
                   => individuals'[a].exposed_duration < SIGMA

C25_ExposedStep == [][ExposedStepOnly]_vars

\* a SEIRD agent has gone through the whole incubation
C25_Witness ==
    /\ variant = "SEIRD" /\ SIGMA = 2
    /\ \E a \in DOMAIN individuals :
          /\ individuals[a].state = "I"
          /\ individuals[a].infection_count = 1
          /\ individuals[a].exposed_duration = 0

\* ---------------------------------------------------------------------
\* SEIRS and SEIRD runs with one day of incubation and two of waning, in
\* which both ends of the Recovered compartment are reached
InitWaning ==
    Constructed({"SEIRS", "SEIRD"}, BOOLEAN, {MaxPop}, 1..(MaxPop + 1),
                {1}, {MaxDays}, {1}, {2}, {1}, Gammas)

SpecWaning == InitWaning /\ [][Next]_vars

\* C26 (Recovered step): the step that processes a Recovered agent makes
\* it Immune, recovered_days untouched, if this is SEIRD and
\* infection_count >= KAPPA; otherwise it adds 1 to recovered_days and, if
\* that reaches MU, makes the agent Susceptible with recovered_days 0; a
\* Recovered agent changes in no other step, so one below the threshold
\* never becomes Immune, and none is Recovered with recovered_days >= MU.
ProcessedRecovered(a) ==
    pc = "pass" /\ idx = a /\ individuals[a].state = "R"

RecoveredStepTaken(a) ==
    IF variant = "SEIRD" /\ individuals[a].infection_count >= KAPPA
    THEN individuals'[a] = [individuals[a] EXCEPT !.state = "Immune"]
    ELSE IF individuals[a].recovered_days + 1 >= MU
    THEN individuals'[a] =
            [individuals[a] EXCEPT !.state = "S", !.recovered_days = 0]
    ELSE individuals'[a] =
            [individuals[a] EXCEPT !.recovered_days = @ + 1]

RecoveredStepOnly ==
    variant \in {"SEIRS", "SEIRD"}
       => \A a \in (DOMAIN individuals) \cap (DOMAIN individuals') :
             /\ ProcessedRecovered(a) => RecoveredStepTaken(a)
             /\ individuals[a].state = "R" /\ ~ProcessedRecovered(a)
                   => individuals'[a] = individuals[a]
             /\ individuals'[a].state = "R"
                   => individuals'[a].recovered_days < MU

C26_RecoveredStep == [][RecoveredStepOnly]_vars

\* one agent has become Immune while another counts its first recovered
\* day below the threshold
C26_Witness ==
    /\ variant = "SEIRD"
    /\ \E a, b \in DOMAIN individuals :
          /\ individuals[a].state = "Immune"
          /\ individuals[a].recovered_days = 0
          /\ individuals[b].state = "R"
          /\ individuals[b].recovered_days = 1
          /\ individuals[b].infection_count < KAPPA

\* ---------------------------------------------------------------------
\* C27 (Dead and Immune agents are inert): no step changes a Dead or an
\* Immune agent or makes it the target of an exposure; the step that
\* processes it changes nothing at all (it runs no contact pass); and with
\* nobody Infectious or Exposed the loop ends, however many agents are
\* Dead or Immune.
InertStep ==
    /\ \A a \in (DOMAIN individuals) \cap (DOMAIN individuals') :
          Terminal(individuals[a].state)
             => /\ individuals'[a] = individuals[a]
                /\ exposed_by[a] = << >> /\ exposed_by'[a] = << >>
    /\ pc = "pass" /\ Terminal(individuals[idx].state)
          => individuals' = individuals /\ exposed_by' = exposed_by
    /\ /\ pc = "loop"
       /\ \A a \in DOMAIN individuals :
             individuals[a].state \in {"S", "R", "D", "Immune"}
       => pc' = "done"

C27_TerminalInert == [][InertStep]_vars

\* an agent already Dead at the end of an earlier day has been within
\* reach of a contact pass that exposed another agent today
C27_Witness ==
    /\ pc = "record" /\ day >= 2
    /\ d_data[Len(d_data)] = 1
    /\ \E a, b, s \in DOMAIN individuals :
          /\ individuals[a].state = "D"
          /\ exposed_by[s] = <<b>>
          /\ WithinProximity(individuals[b], individuals[a], PROXIMITY)

\* ---------------------------------------------------------------------
\* C28 (Exclusive and exhaustive compartments): once the population is
\* created it has POPULATION_SIZE agents for the rest of the run, each in
\* one compartment of its variant's set ({S, I, R} in the SIR classes,
\* {S, E, I, R} in SEIRS, {S, E, I, R, D, Immune} in SEIRD), and the
\* compartment counts add up to POPULATION_SIZE.
Compartments ==
    IF variant = "SEIRD" THEN {"S", "E", "I", "R", "D", "Immune"}
    ELSE IF variant = "SEIRS" THEN {"S", "E", "I", "R"}
    ELSE {"S", "I", "R"}

C28_Compartments ==
    pc # "new"
       => /\ DOMAIN individuals = 1..POPULATION_SIZE
          /\ \A a \in DOMAIN individuals :
                individuals[a].state \in Compartments
          /\ Count(individuals, "S") + Count(individuals, "E")
                + Count(individuals, "I") + Count(individuals, "R")
                + Count(individuals, "D") + Count(individuals, "Immune")
                = POPULATION_SIZE

C28_Witness ==
    /\ variant = "SEIRD" /\ POPULATION_SIZE = MaxPop /\ day >= 2
    /\ Count(individuals, "D") = 1
    /\ Count(individuals, "E") = 1
    /\ Count(individuals, "R") = 1

\* ---------------------------------------------------------------------
\* every program with agents: the SEIRS and SEIRD classes with waning and
\* immunity within reach, and the three SIR programs
InitAll == InitWaning \/ InitSIR

SpecAll == InitAll /\ [][Next]_vars

\* the step processes agent a itself
Processed(a) == pc = "pass" /\ idx = a

\* the step is the contact pass of an Infectious agent that stays
\* Infectious and has agent s within PROXIMITY
ContactedBy(a, s) ==
    /\ Processed(a) /\ a # s
    /\ individuals[a].state = "I" /\ individuals'[a].state = "I"
    /\ DistanceSq(individuals[a], individuals[s]) <= PROXIMITY * PROXIMITY

LegalChange(s) ==
    LET from == individuals[s].state
        to == individuals'[s].state
        seir == variant \in {"SEIRS", "SEIRD"}
    IN  \/ /\ from = "S" /\ to = (IF seir THEN "E" ELSE "I")
           /\ \E a \in DOMAIN individuals : ContactedBy(a, s)
        \/ from = "E" /\ to = "I" /\ seir /\ Processed(s)
        \/ from = "I" /\ to = "R" /\ Processed(s)
        \/ from = "I" /\ to = "D" /\ variant = "SEIRD" /\ Processed(s)
        \/ from = "R" /\ to = "S" /\ seir /\ Processed(s)
        \/ /\ from = "R" /\ to = "Immune" /\ variant = "SEIRD"
           /\ Processed(s)
           /\ individuals[s].infection_count >= KAPPA

DayDraws == 4

\* BranchOf testing the compartment the agent had when the day began
BranchOf_DayStart(start, inds, k, v) == Branch(v, start[k].state)

\* the branch taken for agent k: `person.state` is read when the loop
\* reaches the agent, whatever it was when the day began (start)
BranchOf(start, inds, k, v) == Branch(v, inds[k].state)

\* the 'I' branch for agent a on the draws us: the recovery draw, in SEIRD
\* one death draw, then one draw per Susceptible agent within reach, in
\* list order; `us` in the result is what is left of the sequence
InfectiousOnDraws(inds, a, us, v, radius) ==
    LET g == us[1]
        e == IF v = "SEIRD" THEN us[2] ELSE 0
        first == IF v = "SEIRD" THEN 2 ELSE 1
        reach == ContactDraws(inds, a, v, radius, g, e, e)
        c == [k \in reach |->
                 us[first + Cardinality({j \in reach : j <= k})]]
    IN  [inds |-> InfectiousStep(inds, a, v, radius, g, e, e, c),
         us |-> SubSeq(us, first + Cardinality(reach) + 1, Len(us))]

\* `for person in self.individuals`, from agent k on
RECURSIVE RunDayFrom(_, _, _, _, _, _)
RunDayFrom(start, inds, k, us, v, radius) ==
    IF k > Len(inds) THEN inds
    ELSE LET b == BranchOf(start, inds, k, v) IN
         IF b = "infectious"
         THEN LET r == InfectiousOnDraws(inds, k, us, v, radius)
              IN  RunDayFrom(start, r.inds, k + 1, r.us, v, radius)
         ELSE IF b = "exposed"
         THEN RunDayFrom(start,
                         [inds EXCEPT ![k] = ExposedStep(inds[k], v)],
                         k + 1, us, v, radius)
         ELSE IF b = "recovered"
         THEN RunDayFrom(start,
                         [inds EXCEPT ![k] = RecoveredStep(inds[k], v)],
                         k + 1, us, v, radius)
         ELSE RunDayFrom(start, inds, k + 1, us, v, radius)

RunDay(inds, us, v, radius) == RunDayFrom(inds, inds, 1, us, v, radius)

\* the same agents listed, and so processed, in the opposite order
Reversed(inds) == [k \in 1..Len(inds) |-> inds[Len(inds) + 1 - k]]

\* ---------------------------------------------------------------------
\* C30 (Order dependence): with the positions, the parameters and the
\* draw sequence fixed, the order of processing changes the compartments
\* at the end of the day. In an SIR class, with an Infectious agent listed
\* before a Susceptible one within reach, every sequence on which the
\* first stays Infectious, infects the second, and the next recovery draw
\* succeeds ends the day with different compartments than the same
\* sequence on the reversed list (the newly infected agent is processed,
\* and recovers, only when it comes later in the list).
OrderSensitive(us) ==
    LET listed == RunDay(individuals, us, variant, PROXIMITY)
        turned == Reversed(RunDay(Reversed(individuals), us, variant,
                                  PROXIMITY))
    IN  \E k \in DOMAIN individuals : listed[k].state # turned[k].state

InfectiousBeforeSusceptible ==
    /\ pc = "loop" /\ day = 0
    /\ variant \in {"SIR", "SIR_class"}
    /\ Len(individuals) = 2
    /\ individuals[1].state = "I"
    /\ individuals[2].state = "S"
    /\ DistanceSq(individuals[1], individuals[2]) <= PROXIMITY * PROXIMITY

C30_OrderDependent ==
    InfectiousBeforeSusceptible
       => \A us \in [1..DayDraws -> Draws] :
             ~Less(us[1], GAMMA) /\ us[2] = 0 /\ Less(us[3], GAMMA)
                => OrderSensitive(us)

C30_Witness ==
    /\ InfectiousBeforeSusceptible
    /\ \E us \in [1..DayDraws -> Draws] : OrderSensitive(us)


(* ---------------------- C31: incubation length ------------------------ *)
\* agents the contact passes of the current day have exposed
ExposedToday == {s \in DOMAIN exposed_by : exposed_by[s] # << >>}

\* C31: in SEIRS and SEIRD, at the end of a day (all agents processed, the
\* counts about to be appended) every agent that was exposed during that
\* day is still Exposed with exposed_duration 0, wherever it stands in the
\* list relative to the agent that exposed it: its own Exposed step has not
\* been run on the day of its exposure
C31_UniformIncubation ==
    (pc = "record" /\ HasExposed(variant))
        => \A s \in ExposedToday :
              /\ individuals[s].state = "E"
              /\ individuals[s].exposed_duration = 0

(* ------------------- C32: one change per day (SIR) -------------------- *)
\* the step of the agent being processed, when that agent was infected by
\* a contact pass earlier the same day, changes no agent: it neither
\* recovers nor infects
InfectedTodayStep ==
    (/\ pc = "pass"
     /\ variant \in {"SIR", "SIR_class", "simulation"}
     /\ idx \in ExposedToday)
        => individuals' = individuals

\* C32: in the SIR variants an agent infected during a day takes no action
\* of its own on that day: when the loop reaches it, it does not recover
\* and it infects nobody, wherever it stands in the list relative to its
\* infector
C32_NoActionOnInfectionDay == [][InfectedTodayStep]_vars

(* ------------------ C33: counters and compartments -------------------- *)
\* between two days: the loop condition is about to be tested, or the loop
\* has ended
DayBoundary == pc \in {"loop", "done"}

ExposedCounterTied(p) ==
    IF p.state = "E"
    THEN 0 <= p.exposed_duration /\ p.exposed_duration < SIGMA
    ELSE p.exposed_duration = 0

RecoveredCounterTied(p) ==
    IF p.state = "R"
    THEN 0 <= p.recovered_days /\ p.recovered_days < MU
    ELSE p.recovered_days = 0

\* C33: in SEIRS and SEIRD, at every day boundary, exposed_duration is 0
\* for every agent that is not Exposed and in 0..SIGMA-1 for every Exposed
\* agent, and recovered_days is 0 for every agent that is not Recovered
\* (Immune and Dead agents included) and in 0..MU-1 for every Recovered
\* agent
C33_CountersTied ==
    (DayBoundary /\ variant \in {"SEIRS", "SEIRD"})
        => \A a \in DOMAIN individuals :
              /\ ExposedCounterTied(individuals[a])
              /\ RecoveredCounterTied(individuals[a])

\* a day boundary with an agent part-way through incubation and an agent
\* part-way through waning
C33_Witness ==
    /\ DayBoundary /\ day >= 1
    /\ variant \in {"SEIRS", "SEIRD"}
    /\ \E a \in DOMAIN individuals :
          individuals[a].state = "E" /\ individuals[a].exposed_duration = 1
    /\ \E a \in DOMAIN individuals :
          individuals[a].state = "R" /\ individuals[a].recovered_days = 1

(* ---------------- C34: live path and headless path -------------------- *)
\* C34: for the SIR, SEIRS and SEIRD classes the live-visualization path
\* and the headless path are the same state machine: from the same agents
\* at the end of a day (the per-agent code, the loop condition and the
\* draws are the same on both paths) the two paths append the same values
\* to the same series, so they record identical time series
C34_PathsRecordAlike ==
    (pc = "record" /\ variant \in Variants)
        => Snapshot(individuals, variant, TRUE)
              = Snapshot(individuals, variant, FALSE)

(* --------------- C35: simulate_sir_model terminates ------------------- *)
\* a step of the program itself (the quit event comes from outside)
Proceed ==
    \/ Construct
    \/ Seed
    \/ SeedError
    \/ DayStart
    \/ LoopExit
    \/ StepInfectious
    \/ StepNone
    \/ Record

\* the recovery draw of agent a succeeds: random.random() < gamma
Recovers(a) ==
    /\ StepInfectious
    /\ idx = a
    /\ individuals'[a].state = "R"

\* simulate_sir_model with a program that keeps running and fair draws: a
\* recovery draw that is tried again and again succeeds at some point
SpecSimulationFair ==
    /\ InitSimulation
    /\ [][NextSimulation]_vars
    /\ WF_vars(Proceed)
    /\ \A a \in PopSizes : SF_vars(Recovers(a))

\* the function has returned with nobody Infectious
Returned ==
    /\ pc = "done"
    /\ \A a \in DOMAIN individuals : individuals[a].state # "I"

\* the process has ended without a return: exit() on a quit event, or the
\* ValueError of random.sample
Aborted == pc \in {"quit", "error"}

\* once the population is built the Susceptible count does not grow and
\* the Recovered count does not shrink
CountsMonotone ==
    pc # "new"
       => /\ Count(individuals', "S") <= Count(individuals, "S")
          /\ Count(individuals', "R") >= Count(individuals, "R")

\* C35: simulate_sir_model, whose loop has no day bound, terminates under
\* fair draws with gamma > 0: unless the process is ended first by a quit
\* event or by the seeding error, a state with no Infectious agent is
\* reached and the function returns; along the way the Susceptible count
\* never increases and the Recovered count never decreases
C35_Terminates ==
    /\ <>(Returned \/ Aborted)
    /\ [][CountsMonotone]_vars

\* the function has returned after an epidemic in which agents other than
\* the seeded ones were infected and recovered
C35_Witness ==
    /\ variant = "simulation"
    /\ Returned
    /\ GAMMA.num > 0
    /\ Count(individuals, "R") > INITIAL_INFECTED
=============================================================================
